---- MODULE Spec2Model ----
(***************************************************************************)
(* Model of the out-of-process compile-time evaluator for pure functions  *)
(* (cmd/compile/internal/walk/pure_eval.go) and of the walkCall hook that  *)
(* invokes it.                                                             *)
(*                                                                         *)
(* Go strings are sequences of one-character strings.  A constant value   *)
(* is a record [kind, val] where kind is its go/constant kind.             *)
(***************************************************************************)
EXTENDS Integers, Sequences, FiniteSets, TLC

\* ------------------------------------------------------------------ text

RECURSIVE Concat(_)
Concat(ss) == IF ss = <<>> THEN <<>> ELSE Head(ss) \o Concat(Tail(ss))

Upper == <<"A","B","C","D","E","F","G","H","I","J","K","L","M",
           "N","O","P","Q","R","S","T","U","V","W","X","Y","Z">>
Lower == <<"a","b","c","d","e","f","g","h","i","j","k","l","m",
           "n","o","p","q","r","s","t","u","v","w","x","y","z">>
DigitChars == <<"0","1","2","3","4","5","6","7","8","9">>

\* strings.ToLower on the ASCII range
ToLowerChar(c) ==
    IF \E i \in 1..26 : Upper[i] = c
    THEN Lower[CHOOSE i \in 1..26 : Upper[i] = c]
    ELSE c
ToLower(s) == [i \in 1..Len(s) |-> ToLowerChar(s[i])]
ToUpperChar(c) ==
    IF \E i \in 1..26 : Lower[i] = c
    THEN Upper[CHOOSE i \in 1..26 : Lower[i] = c]
    ELSE c
ToUpper(s) == [i \in 1..Len(s) |-> ToUpperChar(s[i])]

\* decimal text of an integer: strconv.Itoa, constant.Value.String() of an
\* Int, and fmt.Print of an int all produce it
RECURSIVE NatDigits(_)
NatDigits(n) ==
    IF n < 10 THEN <<DigitChars[n + 1]>>
    ELSE NatDigits(n \div 10) \o <<DigitChars[(n % 10) + 1]>>
Itoa(n) == IF n < 0 THEN <<"-">> \o NatDigits(0 - n) ELSE NatDigits(n)

IsDigit(c) == \E i \in 1..10 : DigitChars[i] = c
DigitVal(c) == (CHOOSE i \in 1..10 : DigitChars[i] = c) - 1
RECURSIVE ParseNat(_)
ParseNat(t) ==
    IF Len(t) = 1 THEN DigitVal(t[1])
    ELSE 10 * ParseNat(SubSeq(t, 1, Len(t) - 1)) + DigitVal(t[Len(t)])
IsNatText(t) == Len(t) > 0 /\ \A i \in 1..Len(t) : IsDigit(t[i])
IsIntText(t) ==
    \/ IsNatText(t)
    \/ Len(t) > 1 /\ t[1] = "-" /\ IsNatText(Tail(t))
ParseInt(t) == IF t[1] = "-" THEN 0 - ParseNat(Tail(t)) ELSE ParseNat(t)

\* fmt.Sprintf("%q", s): strconv.Quote
QuoteChar(c) ==
    CASE c = "\"" -> <<"\\", "\"">>
      [] c = "\\" -> <<"\\", "\\">>
      [] c = "\n" -> <<"\\", "n">>
      [] OTHER    -> <<c>>
Quote(s) == <<"\"">> \o Concat([i \in 1..Len(s) |-> QuoteChar(s[i])]) \o <<"\"">>

\* the Go scanner's reading of an interpreted string literal
RECURSIVE UnquoteBody(_)
UnquoteBody(t) ==
    IF t = <<>> THEN <<>>
    ELSE IF t[1] = "\\" /\ Len(t) >= 2
         THEN <<(IF t[2] = "n" THEN "\n" ELSE t[2])>> \o UnquoteBody(SubSeq(t, 3, Len(t)))
         ELSE <<t[1]>> \o UnquoteBody(Tail(t))
IsStringText(t) == Len(t) >= 2 /\ t[1] = "\"" /\ t[Len(t)] = "\""
Unquote(t) == UnquoteBody(SubSeq(t, 2, Len(t) - 1))

TrueText == <<"t","r","u","e">>
FalseText == <<"f","a","l","s","e">>

\* ------------------------------------------------------------- constants

\* go/constant kinds of a literal's value
SupportedKinds == {"String", "Int", "Float", "Bool"}

\* parameter and result types (types.Type), by what IsString, IsInteger,
\* IsFloat and IsBoolean answer for them
IsString(t) == t = "string"
IsInteger(t) == t = "int"
IsFloat(t) == t = "float64"
IsBoolean(t) == t = "bool"

\* the constant kind a value of type t has
KindOfType(t) ==
    CASE IsString(t)  -> "String"
      [] IsInteger(t) -> "Int"
      [] IsFloat(t)   -> "Float"
      [] IsBoolean(t) -> "Bool"
      [] t = "complex128" -> "Complex"
      [] OTHER -> "Unknown"

Str(s) == [kind |-> "String", val |-> s]
Int_(n) == [kind |-> "Int", val |-> n]
Bool_(b) == [kind |-> "Bool", val |-> b]
\* a Float constant is mant * 10^exp, mant >= 0 without trailing zeros
Float_(m, e) == [kind |-> "Float", val |-> [mant |-> m, exp |-> e]]

\* argument nodes: a literal (ir.OLITERAL) carries a constant value, a
\* variable (ir.ONAME) or a call result (ir.OCALLFUNC) carries none
Lit(v) == [op |-> "OLITERAL", kind |-> v.kind, val |-> v.val]
Name(x) == [op |-> "ONAME", name |-> x]

\* ------------------------------------------------------------- functions

\* fn.Sym().Pkg.Path, fn.Sym().Name, fn.Pragma&ir.Pure, fn.Type().Params(),
\* and the result type.  pkgPath is the list of the path's elements.
Func(path, name, pure, params, ret) ==
    [pkgPath |-> path, name |-> name, pure |-> pure, params |-> params, ret |-> ret]

FnToLower == Func(<<"strings">>, "ToLower", TRUE, <<"string">>, "string")
FnToUpper == Func(<<"strings">>, "ToUpper", FALSE, <<"string">>, "string")
FnItoa == Func(<<"strconv">>, "Itoa", TRUE, <<"int">>, "string")
\* testdata/pure_ssa/simple.go: add, in package main
FnAdd == Func(<<"main">>, "add", TRUE, <<"int", "int">>, "int")
\* the same function exported from an importable package
FnAddExported == Func(<<"mathx">>, "Add", TRUE, <<"int", "int">>, "int")

\* a function of a module at major version 2: the import path ends in v2,
\* the package is named text
FnLowerV2 == Func(<<"example.com", "text", "v2">>, "Lower", TRUE, <<"string">>, "string")

\* what the toolchain can build: the packages an import in the scratch
\* directory resolves to, and their exported functions
Importable == {<<"strings">>, <<"strconv">>, <<"mathx">>, <<"example.com", "text", "v2">>}
Universe == {FnToLower, FnToUpper, FnItoa, FnAdd, FnAddExported, FnLowerV2}
Exported(name) == name \in {"ToLower", "ToUpper", "Itoa", "Add", "Lower"}

\* the function's own behaviour, as a direct call computes it
Apply(fn, vals) ==
    CASE fn.name \in {"ToLower", "Lower"} -> Str(ToLower(vals[1].val))
      [] fn.name = "ToUpper" -> Str(ToUpper(vals[1].val))
      [] fn.name = "Itoa"    -> Str(Itoa(vals[1].val))
      [] fn.name \in {"add", "Add"} -> Int_(vals[1].val + vals[2].val)

Call(fn, args) == [op |-> "OCALLFUNC", fn |-> fn, args |-> args]

\* ------------------------------------------------- constant.Value.String

RECURSIVE Pow10(_)
Pow10(n) == IF n <= 0 THEN 1 ELSE 10 * Pow10(n - 1)

RECURSIVE StripZeros(_)
StripZeros(m) == IF m # 0 /\ m % 10 = 0 THEN StripZeros(m \div 10) ELSE m

\* the digits of m rounded to at most sig significant digits, and the
\* decimal exponent of the leading digit, for the value m * 10^e
RoundSig(m, e, sig) ==
    LET n == Len(NatDigits(m))
        cut == n - sig
        r == IF cut <= 0 THEN m ELSE (m + 5 * Pow10(cut - 1)) \div Pow10(cut)
        carried == cut > 0 /\ r = Pow10(sig)
    IN [digits |-> NatDigits(StripZeros(r)),
        x |-> (n - 1 + e) + (IF carried THEN 1 ELSE 0)]

ExpText(x) ==
    <<"e", (IF x < 0 THEN "-" ELSE "+")>> \o
    (LET a == IF x < 0 THEN 0 - x ELSE x
     IN IF a < 10 THEN <<"0">> \o NatDigits(a) ELSE NatDigits(a))

RECURSIVE Zeros(_)
Zeros(n) == IF n <= 0 THEN <<>> ELSE <<"0">> \o Zeros(n - 1)

\* fmt's %g layout of the digits d with leading-digit exponent x
FormatG(d, x) ==
    IF x < -4 \/ x >= 6
    THEN <<d[1]>> \o (IF Len(d) > 1 THEN <<".">> \o Tail(d) ELSE <<>>) \o ExpText(x)
    ELSE IF x < 0
         THEN <<"0", ".">> \o Zeros(0 - x - 1) \o d
         ELSE IF Len(d) <= x + 1
              THEN d \o Zeros(x + 1 - Len(d))
              ELSE SubSeq(d, 1, x + 1) \o <<".">> \o SubSeq(d, x + 2, Len(d))

\* go/constant's String() of a Float: "%.6g", and "%g" when the value is
\* not an integer but the six-digit text shows no decimal point
FloatString(v) ==
    IF v.mant = 0 THEN <<"0">>
    ELSE LET six == RoundSig(v.mant, v.exp, 6)
             s == FormatG(six.digits, six.x)
             full == RoundSig(v.mant, v.exp, Len(NatDigits(v.mant)))
         IN IF v.exp < 0 /\ ~(\E i \in 1..Len(s) : s[i] = ".")
            THEN FormatG(full.digits, full.x)
            ELSE s

\* ------------------------------------------------------- allArgsConstant

\* faulty variant: the OLITERAL test is missing
ArgAccepted_NoLiteralCheck(arg, param) ==
    \/ arg.op # "OLITERAL"
    \/ /\ arg.kind \in SupportedKinds
       /\ ~(IsString(param) /\ arg.kind # "String")
       /\ ~(IsInteger(param) /\ arg.kind # "Int")
       /\ ~(IsFloat(param) /\ arg.kind # "Float")
       /\ ~(IsBoolean(param) /\ arg.kind # "Bool")

\* faulty variant: a float parameter is compared with the Int kind
ArgAccepted_FloatAsInt(arg, param) ==
    /\ arg.op = "OLITERAL"
    /\ arg.kind \in SupportedKinds
    /\ ~(IsString(param) /\ arg.kind # "String")
    /\ ~(IsInteger(param) /\ arg.kind # "Int")
    /\ ~(IsFloat(param) /\ arg.kind # "Int")
    /\ ~(IsBoolean(param) /\ arg.kind # "Bool")

\* one iteration of the loop: TRUE when the argument passes every check
ArgAccepted(arg, param) ==
    /\ arg.op = "OLITERAL"
    /\ arg.kind \in SupportedKinds
    /\ ~(IsString(param) /\ arg.kind # "String")
    /\ ~(IsInteger(param) /\ arg.kind # "Int")
    /\ ~(IsFloat(param) /\ arg.kind # "Float")
    /\ ~(IsBoolean(param) /\ arg.kind # "Bool")

\* faulty variant: the lengths are not compared, the arguments are checked
\* against the parameters there are
allArgsConstant_NoArityCheck(args, paramTypes) ==
    \A i \in 1..Len(args) : i <= Len(paramTypes) => ArgAccepted(args[i], paramTypes[i])

allArgsConstant(args, paramTypes) ==
    IF Len(args) # Len(paramTypes) THEN FALSE
    ELSE \A i \in 1..Len(args) : ArgAccepted(args[i], paramTypes[i])

\* faulty variant: the lengths are compared after the loop
ArgsInspected_ArityLast(args, paramTypes) ==
    LET bad == {i \in 1..Len(args) :
                  i <= Len(paramTypes) /\ ~ArgAccepted(args[i], paramTypes[i])}
    IN IF bad = {} THEN Len(args) ELSE CHOOSE i \in bad : \A j \in bad : i <= j

\* lines 144-179: the number of arguments the loop has looked at when
\* allArgsConstant returns: none when the lengths differ (line 145 returns
\* before the loop), else up to the first one rejected
ArgsInspected(args, paramTypes) ==
    IF Len(args) # Len(paramTypes) THEN 0
    ELSE LET bad == {i \in 1..Len(args) : ~ArgAccepted(args[i], paramTypes[i])}
         IN IF bad = {} THEN Len(args) ELSE CHOOSE i \in bad : \A j \in bad : i <= j

\* ------------------------------------------------- generateHelperProgram

\* filepath.Base of the import path
Base(pkgPath) == pkgPath[Len(pkgPath)]

RenderArg(arg) ==
    CASE arg.kind = "String" -> Quote(arg.val)
      [] arg.kind = "Int"    -> Itoa(arg.val)
      [] arg.kind = "Float"  -> FloatString(arg.val)
      [] arg.kind = "Bool"   -> IF arg.val THEN TrueText ELSE FalseText

\* a synthesizer that leaves the arguments it cannot render out of the call
generateHelperProgram_SkipsUnsupported(fn, args) ==
    LET kept == SelectSeq(args, LAMBDA a : a.kind \in SupportedKinds) IN
    << [line |-> "package", name |-> "main"],
       [line |-> "import", path |-> fn.pkgPath],
       [line |-> "import", path |-> <<"fmt">>],
       [line |-> "func main"],
       [line |-> "result :=", qual |-> Base(fn.pkgPath), fn |-> fn.name,
        args |-> [i \in 1..Len(kept) |-> RenderArg(kept[i])]],
       [line |-> "fmt.Print(result)"] >>

\* The program text, line by line.  The empty text <<>> is the failure
\* result "".
generateHelperProgram(fn, args) ==
    IF \E i \in 1..Len(args) : args[i].kind \notin SupportedKinds
    THEN <<>>
    ELSE << [line |-> "package", name |-> "main"],
            [line |-> "import", path |-> fn.pkgPath],
            [line |-> "import", path |-> <<"fmt">>],
            [line |-> "func main"],
            [line |-> "result :=", qual |-> Base(fn.pkgPath), fn |-> fn.name,
             args |-> [i \in 1..Len(args) |-> RenderArg(args[i])]],
            [line |-> "fmt.Print(result)"] >>

\* ------------------------------------------------- the build-and-run child

\* the place of the first c in t, 0 when there is none
IndexOf(t, c) ==
    IF \E i \in 1..Len(t) : t[i] = c
    THEN CHOOSE i \in 1..Len(t) : t[i] = c /\ \A j \in 1..(i - 1) : t[j] # c
    ELSE 0

\* a floating-point literal cut into integer part, fraction and exponent
FloatParts(t) ==
    LET e == IndexOf(t, "e")
        m == IF e = 0 THEN t ELSE SubSeq(t, 1, e - 1)
        d == IndexOf(m, ".")
    IN [dot |-> d # 0, hasExp |-> e # 0,
        int |-> IF d = 0 THEN m ELSE SubSeq(m, 1, d - 1),
        frac |-> IF d = 0 THEN <<>> ELSE SubSeq(m, d + 1, Len(m)),
        exp |-> IF e = 0 THEN <<>> ELSE SubSeq(t, e + 1, Len(t))]

IsFloatText(t) ==
    LET f == FloatParts(t) IN
    /\ f.dot \/ f.hasExp
    /\ IsNatText(f.int)
    /\ f.dot => IsNatText(f.frac)
    /\ f.hasExp => Len(f.exp) >= 2 /\ f.exp[1] \in {"+", "-"} /\ IsNatText(Tail(f.exp))

\* mant * 10^exp with mant free of trailing zeros
RECURSIVE Normalise(_, _)
Normalise(m, e) ==
    IF m = 0 THEN [mant |-> 0, exp |-> 0]
    ELSE IF m % 10 = 0 THEN Normalise(m \div 10, e + 1)
    ELSE [mant |-> m, exp |-> e]

\* the value of a floating-point literal
ParseFloat(t) ==
    LET f == FloatParts(t)
        x == IF ~f.hasExp THEN 0
             ELSE IF f.exp[1] = "-" THEN 0 - ParseNat(Tail(f.exp))
             ELSE ParseNat(Tail(f.exp))
    IN Normalise(ParseNat(f.int \o f.frac), x - Len(f.frac))

\* The toolchain's reading of one rendered argument (an untyped constant)
ParseLiteral(t) ==
    CASE IsStringText(t) -> Str(Unquote(t))
      [] t = TrueText    -> Bool_(TRUE)
      [] t = FalseText   -> Bool_(FALSE)
      [] IsIntText(t)    -> Int_(ParseInt(t))
      [] IsFloatText(t)  -> [kind |-> "Float", val |-> ParseFloat(t)]
      [] OTHER           -> [kind |-> "Unknown", val |-> t]

\* an untyped constant of kind k can be passed for a parameter of type t
Assignable(k, t) ==
    \/ k = KindOfType(t)
    \/ k = "Int" /\ IsFloat(t)
    \/ t = "any" /\ k \in SupportedKinds

\* the name the package at an import path declares
PkgName(path) ==
    IF Len(path) > 1 /\ Base(path) = "v2" THEN path[Len(path) - 1] ELSE Base(path)

ImportLine(src) == src[2]
CallLine(src) == src[5]

\* the function the program's call resolves to, if the program builds
Targets(src) ==
    {f \in Universe :
        /\ ImportLine(src).path \in Importable
        /\ f.pkgPath = ImportLine(src).path
        /\ CallLine(src).qual = PkgName(f.pkgPath)
        /\ f.name = CallLine(src).fn
        /\ Exported(f.name)
        /\ Len(CallLine(src).args) = Len(f.params)
        /\ \A i \in 1..Len(f.params) :
              Assignable(ParseLiteral(CallLine(src).args[i]).kind, f.params[i])}
Builds(src) == Targets(src) # {}
Target(src) == CHOOSE f \in Targets(src) : TRUE
ParsedArgs(src) ==
    [i \in 1..Len(CallLine(src).args) |-> ParseLiteral(CallLine(src).args[i])]

\* fmt.Print(result)
PrintValue(v) ==
    CASE v.kind = "String" -> v.val
      [] v.kind = "Int"    -> Itoa(v.val)
      [] v.kind = "Bool"   -> IF v.val THEN TrueText ELSE FalseText

\* what the program writes to standard output when it builds and runs
RunOutput(src) == PrintValue(Apply(Target(src), ParsedArgs(src)))

\* the call sites the compiler inside the child walks: the program's one
\* call, with its literal arguments
HelperUnit(src) ==
    IF Builds(src)
    THEN <<Call(Target(src), [i \in 1..Len(ParsedArgs(src)) |-> Lit(ParsedArgs(src)[i])])>>
    ELSE <<>>

\* ------------------------------------------------------------ environment

GuardVar == "GO_PURE_EVAL_HELPER"
EnvEntry(k, v) == [k |-> k, v |-> v]

\* os.Getenv: the value of the last entry for the key, "" when there is none
Getenv(env, key) ==
    IF \E i \in 1..Len(env) : env[i].k = key
    THEN env[CHOOSE i \in 1..Len(env) :
                /\ env[i].k = key
                /\ \A j \in (i + 1)..Len(env) : env[j].k # key].v
    ELSE ""

\* the environments a host compiler is started in
AmbientEnvs ==
    { <<EnvEntry("PATH", "/usr/bin")>>,
      <<EnvEntry("PATH", "/usr/bin"), EnvEntry(GuardVar, "")>>,
      <<EnvEntry("PATH", "/usr/bin"), EnvEntry(GuardVar, "1")>>,
      <<EnvEntry("GOROOT", "/usr/lib/go"), EnvEntry("PATH", "/usr/bin")>> }

\* buildcfg.GOROOT of the host compiler
GorootValues == {"", "/goroot"}

\* faulty variant: no fall back to PATH when the GOROOT binary is missing
GoBin_NoFallback(goroot, statOK) ==
    IF goroot # "" THEN <<goroot, "bin", "go">> ELSE <<"go">>

\* lines 109-117: the toolchain executable
GoBin(goroot, statOK) ==
    IF goroot # "" /\ statOK THEN <<goroot, "bin", "go">> ELSE <<"go">>

\* faulty variant: GOROOT is appended although buildcfg.GOROOT is ""
ChildEnv_GorootAlways(environ, goroot) ==
    Append(environ, EnvEntry("GOROOT", goroot)) \o <<EnvEntry(GuardVar, "1")>>

\* faulty variant: the guard entry is not appended
ChildEnv_NoGuard(environ, goroot) ==
    IF goroot # "" THEN Append(environ, EnvEntry("GOROOT", goroot)) ELSE environ

\* lines 125-131: the child's environment
ChildEnv(environ, goroot) ==
    (IF goroot # "" THEN Append(environ, EnvEntry("GOROOT", goroot)) ELSE environ)
      \o <<EnvEntry(GuardVar, "1")>>

\* faulty variant: the guard is set with os.Setenv in the running process
EnvironAfterRun_Setenv(environ) == Append(environ, EnvEntry(GuardVar, "1"))

\* lines 125-131: env is the copy os.Environ() returns and goes to cmd.Env
\* only; the environment of the running process is what it was
EnvironAfterRun(environ) == environ

\* ------------------------------------------------------ compilation units

H == <<"H","E","L","L","O">>
HelloWorld == H \o <<" ">> \o <<"W","O","R","L","D">>

\* testdata/pure_comptime: mixed(s) of the README, Case 1 and 2 of
\* test_verify.go
UnitVerify ==
    << Call(FnToLower, <<Lit(Str(HelloWorld))>>),
       Call(FnToLower, <<Name("input")>>) >>
\* testdata/pure_comptime/test_primitives.go
UnitPrimitives ==
    << Call(FnItoa, <<Lit(Int_(42))>>),
       Call(FnItoa, <<Lit(Int_(-100))>>),
       Call(FnItoa, <<Name("num")>>) >>
\* testdata/pure_ssa/simple.go
UnitAdd ==
    << Call(FnAdd, <<Lit(Int_(10)), Lit(Int_(20))>>),
       Call(FnAdd, <<Name("y"), Lit(Int_(7))>>) >>
UnitAddExported ==
    << Call(FnAddExported, <<Lit(Int_(10)), Lit(Int_(20))>>),
       Call(FnAddExported, <<Name("x"), Lit(Int_(20))>>) >>
\* a function without the pragma, an argument that is itself a foldable
\* call, and a call whose result is the empty string
UnitOther ==
    << Call(FnToUpper, <<Lit(Str(<<"a","b","c">>))>>),
       Call(FnToLower, <<Call(FnToLower, <<Lit(Str(<<"X">>))>>)>>),
       Call(FnToLower, <<Lit(Str(<<>>))>>) >>
\* the same constant call at several call sites: one whose result is a
\* text, one whose result is the empty string
UnitRepeat ==
    << Call(FnToLower, <<Lit(Str(<<"A", "b">>))>>),
       Call(FnToLower, <<Lit(Str(<<"A", "b">>))>>),
       Call(FnToLower, <<Lit(Str(<<>>))>>),
       Call(FnToLower, <<Lit(Str(<<>>))>>) >>
\* a call whose result begins with a blank and ends with a newline
UnitSpace ==
    << Call(FnToLower, <<Lit(Str(<<" ", "O", "k", "\n">>))>>) >>
Units ==
    {UnitVerify, UnitPrimitives, UnitAdd, UnitAddExported, UnitOther, UnitRepeat,
     UnitSpace}

\* ------------------------------------------------------------------ state

NumHosts == 2
MaxDepth == 2
NumDirs == 2
\* base.Flag.LowerM: the number of -m flags, 0 to MaxLowerM
MaxLowerM == 2

Hosts == 1..NumHosts
\* a compiler process: the host h itself (depth 0), or the compiler running
\* inside the child spawned by the process one level up
Proc == Hosts \X (0..MaxDepth)
Nested(p) == <<p[1], p[2] + 1>>
DirNames == 1..NumDirs

Nil == [op |-> "NIL"]
NotCalled == [op |-> "NOTCALLED"]
NoChild == [state |-> "none"]
NoDir == 0

VARIABLES
    alive,      \* [Proc -> BOOLEAN]: the compiler process is running
    environ,    \* [Proc -> Seq(entry)]: os.Environ() of the process
    goroot,     \* buildcfg.GOROOT of the toolchain
    unit,       \* [Proc -> Seq(call)]: the call sites, in walk order
    ir,         \* [Proc -> Seq(node)]: the nodes now standing at the call sites
    pos,        \* [Proc -> Nat]: the call site being walked, or the next one
    pc,         \* [Proc -> where the process is inside walkCall]
    source,     \* [Proc -> text]: programSource of the evaluation in progress
    tmpDir,     \* [Proc -> DirNames or NoDir]: tmpDir of the executor
    ret,        \* [Proc -> node]: what the coordinator returned for the last call
    steps,      \* [Proc -> the stages the current or last call went through and
                \*  the failures it met]
    child,      \* [Proc -> child process of the executor]
    fs,         \* [DirNames -> scratch directory]
    LowerM,     \* [Proc -> 0..MaxLowerM]: base.Flag.LowerM of the process
    printed,    \* [Proc -> the trace lines printed for the current or last call]
    runs        \* [Proc -> how often the current or last call called cmd.Run]

vars == <<alive, environ, goroot, unit, ir, pos, pc, source, tmpDir, ret, steps,
          child, fs, LowerM, printed, runs>>

Absent == [exists |-> FALSE, files |-> {}]
\* faulty variant: the program is written under another name
MainFile_OtherName(text) == [name |-> "helper.go", data |-> text]

\* lines 103-104: the file the executor writes into tmpDir
MainFile(text) == [name |-> "main.go", data |-> text]

\* the compilers of the hosts in starts begin, each on a unit in an
\* environment at a verbosity; no other process exists yet
InitWith(goroots, envs, units, levels, starts) ==
    /\ goroot \in goroots
    /\ alive = [p \in Proc |-> p[2] = 0 /\ p[1] \in starts]
    /\ \E env \in [starts -> envs], u \in [starts -> units], m \in [starts -> levels] :
          /\ environ = [p \in Proc |-> IF p[2] = 0 /\ p[1] \in starts THEN env[p[1]] ELSE <<>>]
          /\ unit = [p \in Proc |-> IF p[2] = 0 /\ p[1] \in starts THEN u[p[1]] ELSE <<>>]
          /\ LowerM = [p \in Proc |-> IF p[2] = 0 /\ p[1] \in starts THEN m[p[1]] ELSE 0]
    /\ ir = unit
    /\ pos = [p \in Proc |-> 1]
    /\ pc = [p \in Proc |-> "walk"]
    /\ source = [p \in Proc |-> <<>>]
    /\ tmpDir = [p \in Proc |-> NoDir]
    /\ ret = [p \in Proc |-> NotCalled]
    /\ steps = [p \in Proc |-> {}]
    /\ child = [p \in Proc |-> NoChild]
    /\ fs = [d \in DirNames |-> Absent]
    /\ printed = [p \in Proc |-> <<>>]
    /\ runs = [p \in Proc |-> 0]

Init == InitWith(GorootValues, AmbientEnvs, Units, 0..MaxLowerM, {1})

\* ---------------------------------------------------------------- walkCall

Current(p) == unit[p][pos[p]]

\* faulty variant: the guard is never looked at
GuardActive_Ignored(p) == FALSE

\* line 24: the recursion guard of the running process
GuardActive(p) == Getenv(environ[p], GuardVar) # ""

\* faulty variant: the pragma is not asked for
HookTakes_NoPragma(n) == allArgsConstant(n.args, n.fn.params)

\* the hook's condition: the pragma and allArgsConstant
HookTakes(n) == n.fn.pure /\ allArgsConstant(n.args, n.fn.params)

\* line 69: arg.Val() panics on a node that is no literal
ValPanics(args) == \E i \in 1..Len(args) : args[i].op # "OLITERAL"

\* strings.TrimSpace
RECURSIVE TrimLeft(_)
TrimLeft(s) ==
    IF s # <<>> /\ s[1] \in {" ", "\n", "\t"} THEN TrimLeft(Tail(s)) ELSE s
RECURSIVE TrimRight(_)
TrimRight(s) ==
    IF s # <<>> /\ s[Len(s)] \in {" ", "\n", "\t"}
    THEN TrimRight(SubSeq(s, 1, Len(s) - 1))
    ELSE s

\* faulty variant: the output is trimmed before it becomes the value
Materialize_Trimmed(result, at) ==
    IF result = <<>> THEN [op |-> "NIL"]
    ELSE [op |-> "OLITERAL", kind |-> "String", val |-> TrimRight(TrimLeft(result)),
          type |-> "string", typecheck |-> 1, pos |-> at]

\* faulty variant: an empty result becomes a literal too
Materialize_EmptyAllowed(result, at) ==
    [op |-> "OLITERAL", kind |-> "String", val |-> result,
     type |-> "string", typecheck |-> 1, pos |-> at]

\* faulty variant: the literal is left for the type checker to visit
Materialize_Unchecked(result, at) ==
    IF result = <<>> THEN Nil
    ELSE [op |-> "OLITERAL", kind |-> "String", val |-> result,
          type |-> "string", typecheck |-> 0, pos |-> at]

\* lines 44-60: the typed string constant built from the child's output,
\* nil when the executor's result is ""
Materialize(result, at) ==
    IF result = <<>> THEN Nil
    ELSE [op |-> "OLITERAL", kind |-> "String", val |-> result,
          type |-> "string", typecheck |-> 1, pos |-> at]

\* faulty variant: the captured output is returned although cmd.Run failed
ExecResult_IgnoresError(failed, stdout) == stdout

\* lines 133-140: the executor's result from cmd.Run's error and the
\* captured standard output
ExecResult(failed, stdout) == IF failed THEN <<>> ELSE stdout

\* faulty variant: the directory is left behind
RemoveAll_Skipped(files, d) == files

\* line 101: the deferred os.RemoveAll(tmpDir)
RemoveAll(files, d) == [files EXCEPT ![d] = Absent]

\* ir.PkgFuncName
PkgFuncName(fn) == <<fn.pkgPath, fn.name>>

\* if base.Flag.LowerM > level { fmt.Printf(line) }
Trace(m, level, line) == IF m > level THEN <<line>> ELSE <<>>

\* lines 28-30
AttemptTrace(m, fn) ==
    Trace(m, 1, [text |-> "attempting compile-time evaluation of", fn |-> PkgFuncName(fn)])

\* lines 33-42
ProgramTrace(m, src) ==
    IF src = <<>>
    THEN Trace(m, 1, [text |-> "failed to generate helper program"])
    ELSE Trace(m, 1, [text |-> "generated helper program:", source |-> src])

\* lines 133-136
RunErrorTrace(m, failed, stderr) ==
    IF failed
    THEN Trace(m, 1, [text |-> "helper program error", stderr |-> stderr])
    ELSE <<>>

\* lines 45-54
ResultTrace(m, fn, result) ==
    IF result = <<>>
    THEN Trace(m, 1, [text |-> "failed to execute helper program"])
    ELSE Trace(m, 0, [text |-> "compile-time evaluated", fn |-> PkgFuncName(fn),
                      result |-> result])

\* faulty variant: the literal is built inside "if base.Flag.LowerM > 0"
HookReturns_VerboseOnly(p, r) ==
    LET r2 == IF r.op = "OLITERAL" /\ LowerM[p] = 0 THEN Nil ELSE r IN
    /\ ret' = [ret EXCEPT ![p] = r2]
    /\ ir' = IF r2.op = "OLITERAL" THEN [ir EXCEPT ![p][pos[p]] = r2] ELSE ir
    /\ pos' = [pos EXCEPT ![p] = @ + 1]
    /\ pc' = [pc EXCEPT ![p] = "walk"]

\* the hook's end: a non-nil result replaces the call, nil or no evaluation
\* leaves it, and the walk goes on to the next call site
HookReturns(p, r) ==
    /\ ret' = [ret EXCEPT ![p] = r]
    /\ ir' = IF r.op = "OLITERAL" THEN [ir EXCEPT ![p][pos[p]] = r] ELSE ir
    /\ pos' = [pos EXCEPT ![p] = @ + 1]
    /\ pc' = [pc EXCEPT ![p] = "walk"]

\* lines 22-44: the coordinator, up to its call of executeHelperProgram
evaluatePureFunctionAtCompileTime(p, n) ==
    IF GuardActive(p)
    THEN /\ steps' = [steps EXCEPT ![p] = {"called"}]
         /\ source' = [source EXCEPT ![p] = <<>>]
         /\ printed' = [printed EXCEPT ![p] = <<>>]
         /\ HookReturns(p, Nil)
    ELSE IF ValPanics(n.args)
    THEN /\ steps' = [steps EXCEPT ![p] = {"called", "synth"}]
         /\ source' = [source EXCEPT ![p] = <<>>]
         /\ printed' = [printed EXCEPT ![p] = AttemptTrace(LowerM[p], n.fn)]
         /\ pc' = [pc EXCEPT ![p] = "panic"]
         /\ UNCHANGED <<ret, ir, pos>>
    ELSE LET src == generateHelperProgram(n.fn, n.args) IN
         /\ steps' = [steps EXCEPT ![p] = {"called", "synth"}]
         /\ source' = [source EXCEPT ![p] = src]
         /\ printed' = [printed EXCEPT ![p] =
                          AttemptTrace(LowerM[p], n.fn) \o ProgramTrace(LowerM[p], src)]
         /\ IF src = <<>>
            THEN HookReturns(p, Nil)
            ELSE /\ pc' = [pc EXCEPT ![p] = "mkdir"]
                 /\ ret' = [ret EXCEPT ![p] = NotCalled]
                 /\ UNCHANGED <<ir, pos>>

\* faulty variant: the evaluator takes the arguments out of the call
NodeAfterRead_ArgsTaken(n) == [n EXCEPT !.args = <<>>]

\* lines 63-82 and 143-180: the call node after allArgsConstant and
\* generateHelperProgram have looked at it; they only call Sym, Op, Val and
\* Kind on the function and the arguments
NodeAfterRead(n) == n

\* walkCall reaches the hook for the next call site: the call is left alone,
\* or the coordinator is called for it
walkCall(p) ==
    /\ alive[p] /\ pc[p] = "walk" /\ pos[p] <= Len(unit[p])
    /\ tmpDir' = [tmpDir EXCEPT ![p] = NoDir]
    /\ child' = [child EXCEPT ![p] = NoChild]
    /\ runs' = [runs EXCEPT ![p] = 0]
    /\ unit' = [unit EXCEPT ![p][pos[p]] = NodeAfterRead(@)]
    /\ UNCHANGED <<alive, environ, goroot, fs, LowerM>>
    /\ IF ~HookTakes(Current(p))
       THEN /\ steps' = [steps EXCEPT ![p] =
                          IF /\ Current(p).fn.pure
                             /\ ArgsInspected(Current(p).args, Current(p).fn.params) > 0
                          THEN {"inspected"} ELSE {}]
            /\ source' = [source EXCEPT ![p] = <<>>]
            /\ printed' = [printed EXCEPT ![p] = <<>>]
            /\ HookReturns(p, NotCalled)
       ELSE evaluatePureFunctionAtCompileTime(p, Current(p))

\* ---------------------------------------------------- executeHelperProgram

\* faulty variant: the directory's name is not made unique
FreshDirs_AnyName(files) == DirNames

\* line 97: os.MkdirTemp makes a directory under a name no existing
\* directory has
FreshDirs(files) == {d \in DirNames : ~files[d].exists}

\* faulty variant: a failed run is tried once more
Retries_Once(failed, n) == failed /\ n < 2

\* lines 133-138: whether the executor calls cmd.Run again after a run
\* that failed; the error ends the executor, there is no loop
Retries(failed, n) == FALSE

\* faulty variant: output on standard error counts as a failure
RunFailed_OnStderr(status, stderr) == status # 0 \/ stderr # <<>>

\* line 133: the error of cmd.Run for a child that was started
RunFailed(status, stderr) == status # 0

\* faulty variant: the wait ends although the child still runs
RunEnded_Timeout(c) == c.state \in {"running", "exited"}

\* line 133: cmd.Run comes back for a child that was started
RunEnded(c) == c.state = "exited"

\* what the child can write to standard error
StderrTexts == {<<>>, <<"exit status 1">>}

\* base.Pos while the hook runs: the walk of an expression sets it to the
\* position of that expression, here the call at the site the walk is at
BasePos(p) == pos[p]

\* the executor returns result and the coordinator goes on from line 45
ExecutorReturns(p, failed, stderr, result) ==
    /\ printed' = [printed EXCEPT ![p] =
                     @ \o RunErrorTrace(LowerM[p], failed, stderr)
                       \o ResultTrace(LowerM[p], Current(p).fn, result)]
    /\ HookReturns(p, Materialize(result, BasePos(p)))

\* line 97 succeeds
MkdirTemp(p) ==
    /\ pc[p] = "mkdir"
    /\ \E d \in FreshDirs(fs) :
          /\ fs' = [fs EXCEPT ![d] = [exists |-> TRUE, files |-> @.files]]
          /\ tmpDir' = [tmpDir EXCEPT ![p] = d]
    /\ steps' = [steps EXCEPT ![p] = @ \cup {"mkdir"}]
    /\ pc' = [pc EXCEPT ![p] = "write"]
    /\ UNCHANGED <<alive, environ, goroot, unit, ir, pos, source, ret, child,
                   LowerM, printed, runs>>

\* line 97 fails: the executor returns "" and the coordinator nil
MkdirTempFails(p) ==
    /\ pc[p] = "mkdir"
    /\ steps' = [steps EXCEPT ![p] = @ \cup {"mkdir failed"}]
    /\ ExecutorReturns(p, FALSE, <<>>, <<>>)
    /\ UNCHANGED <<alive, environ, goroot, unit, source, tmpDir, child, fs, LowerM, runs>>

\* line 104 succeeds
WriteFile(p) ==
    /\ pc[p] = "write"
    /\ fs' = [fs EXCEPT ![tmpDir[p]].files = @ \cup {MainFile(source[p])}]
    /\ steps' = [steps EXCEPT ![p] = @ \cup {"write"}]
    /\ pc' = [pc EXCEPT ![p] = "start"]
    /\ UNCHANGED <<alive, environ, goroot, unit, ir, pos, source, tmpDir, ret, child,
                   LowerM, printed, runs>>

\* line 104 fails
WriteFileFails(p) ==
    /\ pc[p] = "write"
    /\ fs' = RemoveAll(fs, tmpDir[p])
    /\ steps' = [steps EXCEPT ![p] = @ \cup {"write failed"}]
    /\ ExecutorReturns(p, FALSE, <<>>, <<>>)
    /\ UNCHANGED <<alive, environ, goroot, unit, source, tmpDir, child, LowerM, runs>>

\* lines 108-133: the command is built and cmd.Run starts the child, in
\* which a compiler builds the program
StartChild(p) ==
    /\ pc[p] = "start"
    /\ \E statOK \in BOOLEAN :
          child' = [child EXCEPT ![p] =
                      [state |-> "running",
                       argv |-> <<GoBin(goroot, statOK), "run", <<tmpDir[p], "main.go">>>>,
                       env |-> ChildEnv(environ[p], goroot),
                       read |-> {f.data : f \in {g \in fs[tmpDir[p]].files : g.name = "main.go"}},
                       stat |-> goroot # "" /\ statOK,
                       status |-> -1, stdout |-> <<>>, stderr |-> <<>>]]
    /\ pc' = [pc EXCEPT ![p] = "wait"]
    /\ IF p[2] < MaxDepth
       THEN LET c == Nested(p) IN
            /\ alive' = [alive EXCEPT ![c] = TRUE]
            /\ environ' = [environ EXCEPT ![p] = EnvironAfterRun(@),
                                          ![c] = ChildEnv(environ[p], goroot)]
            /\ unit' = [unit EXCEPT ![c] = HelperUnit(source[p])]
            /\ ir' = [ir EXCEPT ![c] = HelperUnit(source[p])]
            /\ pos' = [pos EXCEPT ![c] = 1]
            /\ ret' = [ret EXCEPT ![c] = NotCalled]
            /\ steps' = [steps EXCEPT ![p] = @ \cup {"spawn"}, ![c] = {}]
            /\ printed' = [printed EXCEPT ![c] = <<>>]
            /\ runs' = [runs EXCEPT ![p] = @ + 1, ![c] = 0]
       ELSE /\ steps' = [steps EXCEPT ![p] = @ \cup {"spawn"}]
            /\ environ' = [environ EXCEPT ![p] = EnvironAfterRun(@)]
            /\ runs' = [runs EXCEPT ![p] = @ + 1]
            /\ UNCHANGED <<alive, unit, ir, pos, ret, printed>>
    /\ UNCHANGED <<goroot, source, tmpDir, fs, LowerM>>

\* cmd.Run cannot start the child
StartChildFails(p) ==
    /\ pc[p] = "start"
    /\ fs' = RemoveAll(fs, tmpDir[p])
    /\ steps' = [steps EXCEPT ![p] = @ \cup {"spawn failed"}]
    /\ runs' = [runs EXCEPT ![p] = @ + 1]
    /\ ExecutorReturns(p, TRUE, <<>>, ExecResult(TRUE, <<>>))
    /\ UNCHANGED <<alive, environ, goroot, unit, source, tmpDir, child, LowerM>>

\* the compiler inside the child has walked its unit
NestedDone(p) ==
    \/ p[2] = MaxDepth
    \/ LET c == Nested(p) IN pc[c] = "walk" /\ pos[c] > Len(unit[c])

\* the child ends: with status 0 and the printed result when the program
\* builds and runs through, with another status when the build or the run
\* fails, whatever it has printed by then
ChildExits(p) ==
    /\ pc[p] = "wait" /\ child[p].state = "running"
    /\ NestedDone(p)
    /\ \E ok \in {b \in BOOLEAN : b => Builds(source[p])},
          out \in {<<>>} \cup (IF Builds(source[p]) THEN {RunOutput(source[p])} ELSE {}),
          err \in StderrTexts :
          /\ ok => out = RunOutput(source[p])
          /\ child' = [child EXCEPT ![p] =
                         [@ EXCEPT !.state = "exited",
                                   !.status = IF ok THEN 0 ELSE 1,
                                   !.stdout = out, !.stderr = err]]
    /\ IF p[2] < MaxDepth
       THEN alive' = [alive EXCEPT ![Nested(p)] = FALSE]
       ELSE UNCHANGED alive
    /\ UNCHANGED <<environ, goroot, unit, ir, pos, pc, source, tmpDir, ret, steps, fs,
                   LowerM, printed, runs>>

\* lines 133-141 and 44-60: cmd.Run returns, the directory is removed, the
\* coordinator returns nil or the literal
RunReturns(p) ==
    /\ pc[p] = "wait" /\ child[p].state # "none" /\ RunEnded(child[p])
    /\ LET failed == RunFailed(child[p].status, child[p].stderr) IN
       IF Retries(failed, runs[p])
       THEN /\ pc' = [pc EXCEPT ![p] = "start"]
            /\ UNCHANGED <<fs, ret, ir, pos, printed>>
       ELSE /\ fs' = RemoveAll(fs, tmpDir[p])
            /\ ExecutorReturns(p, failed, child[p].stderr,
                               ExecResult(failed, child[p].stdout))
    /\ UNCHANGED <<alive, environ, goroot, unit, source, tmpDir, steps, child, LowerM,
                   runs>>

Next ==
    \E p \in Proc :
        \/ walkCall(p)
        \/ MkdirTemp(p)
        \/ MkdirTempFails(p)
        \/ WriteFile(p)
        \/ WriteFileFails(p)
        \/ StartChild(p)
        \/ StartChildFails(p)
        \/ ChildExits(p)
        \/ RunReturns(p)

Spec == Init /\ [][Next]_vars

\* the steps of one process
Step(p) ==
    \/ walkCall(p)
    \/ MkdirTemp(p)
    \/ MkdirTempFails(p)
    \/ WriteFile(p)
    \/ WriteFileFails(p)
    \/ StartChild(p)
    \/ StartChildFails(p)
    \/ ChildExits(p)
    \/ RunReturns(p)

\* a compiler that is running goes on running (none of its steps waits for
\* anything but cmd.Run, line 133), and every child started exits
InitLive == InitWith({""}, AmbientEnvs, {UnitVerify, UnitRepeat, UnitOther}, {0}, {1})
SpecLive == InitLive /\ [][Next]_vars /\ \A p \in Proc : WF_vars(Step(p))

\* ------------------------------------------- the eligibility check's inputs

MaxArgs == 2

\* one argument node of every shape the checker tells apart
ArgNodes ==
    { Lit(Str(<<"a">>)), Lit(Int_(1)), Lit(Float_(5, -1)), Lit(Bool_(TRUE)),
      [op |-> "OLITERAL", kind |-> "Complex", val |-> <<"i">>],
      Name("x"),
      Call(FnToLower, <<Lit(Str(<<"X">>))>>) }
ParamTypes == {"string", "int", "float64", "bool", "complex128"}

SeqsUpTo(S, n) == UNION {[1..k -> S] : k \in 0..n}

\* a call of a function F(params) with the arguments args
GeneratedUnits ==
    { <<Call(Func(<<"strings">>, "F", pure, params, "string"), args)>> :
        pure \in BOOLEAN,
        params \in SeqsUpTo(ParamTypes, MaxArgs),
        args \in SeqsUpTo(ArgNodes, MaxArgs) }

PlainEnv == <<EnvEntry("PATH", "/usr/bin")>>

InitElig == InitWith({""}, {PlainEnv}, GeneratedUnits, {0}, {1})
SpecElig == InitElig /\ [][Next]_vars

\* ------------------------------------------- the coordinator called directly

\* literal arguments of every kind of constant, among them a text with a
\* quote, a negative integer and a float of seven significant digits
LiteralNodes ==
    { Lit(Str(<<"a", "\"">>)), Lit(Int_(-7)), Lit(Float_(5, -1)),
      Lit(Float_(1234567, -6)), Lit(Bool_(FALSE)),
      [op |-> "OLITERAL", kind |-> "Complex", val |-> <<"i">>] }

\* functions of a standard package, of package main and of a module whose
\* import path does not end in the package's name
DirectFuncs == {FnToLower, FnAdd, FnLowerV2}

DirectUnits ==
    { <<Call(fn, args)>> : fn \in DirectFuncs, args \in SeqsUpTo(LiteralNodes, MaxArgs) }

\* lines 22-61: evaluatePureFunctionAtCompileTime called with fn and args,
\* whatever its caller checked before
directCall(p) ==
    /\ alive[p] /\ pc[p] = "walk" /\ pos[p] <= Len(unit[p])
    /\ tmpDir' = [tmpDir EXCEPT ![p] = NoDir]
    /\ child' = [child EXCEPT ![p] = NoChild]
    /\ runs' = [runs EXCEPT ![p] = 0]
    /\ unit' = [unit EXCEPT ![p][pos[p]] = NodeAfterRead(@)]
    /\ UNCHANGED <<alive, environ, goroot, fs, LowerM>>
    /\ evaluatePureFunctionAtCompileTime(p, Current(p))

NextDirect ==
    \E p \in Proc :
        \/ directCall(p)
        \/ MkdirTemp(p)
        \/ MkdirTempFails(p)
        \/ WriteFile(p)
        \/ WriteFileFails(p)
        \/ StartChild(p)
        \/ StartChildFails(p)
        \/ ChildExits(p)
        \/ RunReturns(p)

InitDirect == InitWith({""}, {PlainEnv}, DirectUnits, {0}, {1})
SpecDirect == InitDirect /\ [][NextDirect]_vars

\* ------------------------------------------------- concurrent evaluations

\* every host walks at the same time, each one call of
\* testdata/pure_comptime/test_primitives.go, on one disk
ConcUnits ==
    { <<Call(FnToLower, <<Lit(Str(H))>>)>>,
      <<Call(FnItoa, <<Lit(Int_(42))>>)>> }

\* neighbouring hosts walk different calls
InitConc ==
    /\ InitWith({""}, {PlainEnv}, ConcUnits, {0}, Hosts)
    /\ \A h \in Hosts :
          unit[<<h, 0>>][1].fn = IF h % 2 = 1 THEN FnToLower ELSE FnItoa
SpecConc == InitConc /\ [][Next]_vars

\* ------------------------------------------- one compilation, two verbosities

\* two hosts compile the same unit in the same environment, the first with
\* fewer -m flags than the second
InitDiag ==
    /\ InitWith(GorootValues, {PlainEnv}, {UnitVerify, UnitAddExported, UnitOther},
                0..MaxLowerM, {1, 2})
    /\ unit[<<1, 0>>] = unit[<<2, 0>>]
    /\ LowerM[<<1, 0>>] < LowerM[<<2, 0>>]
SpecDiag == InitDiag /\ [][Next]_vars


\* ================================================================== claims

\* the call site the process walked last, once the hook has returned
Returned(p) == pc[p] = "walk" /\ pos[p] > 1
LastSite(p) == pos[p] - 1
LastCall(p) == unit[p][LastSite(p)]
GuardSet(env) == Getenv(env, GuardVar) # ""
AllLiteral(args) == \A i \in 1..Len(args) : args[i].op = "OLITERAL"
\* the site a process is at or, after the hook returned, was at last
SiteNow(p) == IF pc[p] = "walk" THEN pos[p] - 1 ELSE pos[p]
Untouched(p) ==
    /\ steps[p] \cap {"synth", "mkdir", "write", "spawn"} = {}
    /\ source[p] = <<>> /\ tmpDir[p] = NoDir /\ child[p] = NoChild

\* C1: in a process whose environment sets GO_PURE_EVAL_HELPER to a
\* non-empty value, every coordinator call returns nil at once: no program
\* is generated, no scratch directory made, no child started.
C1_GuardShortCircuits ==
    \A p \in Proc :
        GuardSet(environ[p]) =>
            /\ pc[p] = "walk"
            /\ Untouched(p)
            /\ ret[p].op # "OLITERAL"
            /\ "called" \in steps[p] => ret[p] = Nil
            /\ ir[p] = unit[p]
C1_Witness ==
    \E p \in Proc :
        /\ GuardSet(environ[p]) /\ Returned(p)
        /\ "called" \in steps[p] /\ ret[p] = Nil

\* C2: every child runs with the guard set, the compiler inside it has the
\* guard set too, and no process below the host ever starts a child: the
\* chain of spawned processes is at most one deep.
C2_NoRecursion ==
    /\ \A p \in Proc :
          child[p].state # "none" => Getenv(child[p].env, GuardVar) = "1"
    /\ \A p \in Proc :
          p[2] >= 1 =>
              /\ alive[p] => GuardSet(environ[p])
              /\ child[p] = NoChild /\ "spawn" \notin steps[p]
              /\ pc[p] = "walk"
    /\ \A p \in Proc : p[2] >= 2 => ~alive[p]
C2_Witness ==
    \E p \in Proc :
        /\ p[2] = 1 /\ alive[p] /\ Returned(p)
        /\ LastCall(p).fn.pure /\ AllLiteral(LastCall(p).args)
        /\ "called" \in steps[p] /\ ret[p] = Nil

\* C3: a scratch directory exists only while the executor that made it is
\* between MkdirTemp and its return; once the executor has returned, on any
\* path, the directory and its files are gone.
C3_WorkspaceCleanup ==
    \A d \in DirNames :
        fs[d] # Absent =>
            \E p \in Proc : pc[p] \in {"write", "start", "wait"} /\ tmpDir[p] = d
C3_Witness ==
    \E p \in Proc :
        /\ Returned(p) /\ tmpDir[p] # NoDir
        /\ child[p].state = "exited" /\ child[p].status = 0
        /\ \A d \in DirNames : fs[d] = Absent

\* the evaluation of the last call went through every stage
Succeeded(p) ==
    /\ "spawn" \in steps[p]
    /\ child[p].state = "exited" /\ child[p].status = 0 /\ child[p].stdout # <<>>

\* C4: when a stage fails (not taken by the hook, empty program, MkdirTemp,
\* WriteFile or cmd.Run failing, a non-zero exit, empty output) the
\* coordinator returns nil, the call stays, and the compiler does not abort.
C4_FallbackOnFailure ==
    \A p \in Proc :
        /\ pc[p] # "panic"
        /\ Returned(p) /\ ~Succeeded(p) =>
              /\ ret[p] \in {Nil, NotCalled}
              /\ ir[p][LastSite(p)] = LastCall(p)
C4_Witness ==
    \E p \in Proc :
        /\ Returned(p) /\ child[p].state = "exited" /\ child[p].status # 0
        /\ child[p].stdout # <<>>
        /\ ret[p] = Nil /\ ir[p][LastSite(p)] = LastCall(p)

\* C5: a call with a non-literal argument is never evaluated: no program,
\* no directory, no child, the node stays; only calls whose arguments are
\* all literals are ever replaced.
C5_VariablesUntouched ==
    \A p \in Proc :
        /\ pc[p] # "panic"
        /\ \A k \in 1..Len(unit[p]) :
              ~AllLiteral(unit[p][k].args) =>
                  /\ ir[p][k] = unit[p][k]
                  /\ k = SiteNow(p) => Untouched(p) /\ ret[p] = NotCalled
C5_Witness ==
    \E p \in Proc :
        /\ Returned(p) /\ LastSite(p) = 2
        /\ ir[p][1].op = "OLITERAL"
        /\ ~AllLiteral(unit[p][2].args) /\ ir[p][2] = unit[p][2]

\* the spelled-out condition of the eligibility claims: same arity, every
\* argument a literal of one of the four kinds, of its parameter's kind
KindsMatch(call) ==
    /\ Len(call.args) = Len(call.fn.params)
    /\ \A i \in 1..Len(call.args) :
          /\ call.args[i].op = "OLITERAL"
          /\ call.args[i].kind \in {"String", "Int", "Float", "Bool"}
          /\ call.args[i].kind = KindOfType(call.fn.params[i])
\* the hook took the call: the coordinator was invoked for it
Taken(p) == "called" \in steps[p]
Walked(p) == pos[p] > 1 \/ pc[p] # "walk"

C7_ExactKindMatch ==
    LET p == <<1, 0>> IN
    Walked(p) /\ Taken(p) =>
        \A i \in 1..Len(unit[p][1].args) :
            unit[p][1].args[i].kind = KindOfType(unit[p][1].fn.params[i])

\* C8: a call of a function without the pure pragma is never evaluated and
\* never replaced.
C8_PurityGating ==
    \A p \in Proc :
        \A k \in 1..Len(unit[p]) :
            ~unit[p][k].fn.pure =>
                /\ ir[p][k] = unit[p][k]
                /\ k = SiteNow(p) => Untouched(p) /\ ret[p] = NotCalled /\ ~Taken(p)
C8_Witness ==
    \E p \in Proc :
        /\ Returned(p) /\ ~LastCall(p).fn.pure /\ AllLiteral(LastCall(p).args)
        /\ ret[p] = NotCalled /\ ir[p][LastSite(p)] = LastCall(p)

\* the value a direct call of the last call site's function computes
DirectValue(p) ==
    Apply(LastCall(p).fn,
          [i \in 1..Len(LastCall(p).args) |->
              [kind |-> LastCall(p).args[i].kind, val |-> LastCall(p).args[i].val]])

\* C9: whenever the coordinator returns a literal, the literal is the value
\* the direct call f(a1..an) computes.
C9_RoundTrip ==
    \A p \in Proc :
        Returned(p) /\ ret[p].op = "OLITERAL" =>
            /\ ret[p].kind = DirectValue(p).kind
            /\ ret[p].val = DirectValue(p).val

\* C10: add(10, 20) for the pure add(a int, b int) int yields a literal of
\* value 30; add(x, 20) yields nil.
IsAdd(call) == call.fn.name \in {"add", "Add"} /\ call.fn.ret = "int"
C10_AddScenario ==
    \A p \in Proc :
        Returned(p) /\ IsAdd(LastCall(p)) =>
            /\ /\ LastCall(p).args = <<Lit(Int_(10)), Lit(Int_(20))>>
               /\ child[p].state = "exited" /\ child[p].status = 0
               => /\ ret[p].op = "OLITERAL"
                  /\ ret[p].kind = "Int"
                  /\ ret[p].val = 30
            /\ ~AllLiteral(LastCall(p).args) => ret[p] \in {Nil, NotCalled}

\* C11: every literal the coordinator returns has the static return type
\* of the call it replaces.
C11_LiteralTypeIsReturnType ==
    \A p \in Proc :
        Returned(p) /\ ret[p].op = "OLITERAL" =>
            /\ ret[p].type = LastCall(p).fn.ret
            /\ ir[p][LastSite(p)].type = LastCall(p).fn.ret

\* C12: for a call whose static return type is not string the coordinator
\* never returns a literal, and the call is never replaced.
C12_NonStringNeverMaterialized ==
    \A p \in Proc :
        \A k \in 1..Len(unit[p]) :
            unit[p][k].fn.ret # "string" =>
                /\ ir[p][k] = unit[p][k]
                /\ k = SiteNow(p) => ret[p].op # "OLITERAL"

\* C13: a child that exits with status 0 and an empty standard output makes
\* the coordinator return nil; no literal the coordinator returns or puts in
\* place of a call has the empty string as its value, also when the empty
\* string is what the function computes.
C13_EmptyOutputIsFailure ==
    \A p \in Proc :
        /\ ret[p].op = "OLITERAL" => ret[p].val # <<>>
        /\ \A k \in 1..Len(ir[p]) : ir[p][k].op = "OLITERAL" => ir[p][k].val # <<>>
        /\ /\ Returned(p) /\ child[p].state = "exited"
           /\ child[p].status = 0 /\ child[p].stdout = <<>>
           => ret[p] = Nil /\ ir[p][LastSite(p)] = LastCall(p)
C13_Witness ==
    \E p \in Proc :
        /\ Returned(p) /\ child[p].state = "exited"
        /\ child[p].status = 0 /\ child[p].stdout = <<>>
        /\ AllLiteral(LastCall(p).args) /\ DirectValue(p) = Str(<<>>)
        /\ ret[p] = Nil /\ ir[p][LastSite(p)] = LastCall(p)

\* C14: when cmd.Run cannot start the child, or the child exits with a
\* status other than 0, the coordinator returns nil and the call stays,
\* whatever the child wrote to standard output; a literal is returned only
\* after a child that exited with status 0.
C14_ExitStatusDecides ==
    \A p \in Proc :
        /\ /\ Returned(p)
           /\ \/ "spawn failed" \in steps[p]
              \/ child[p].state = "exited" /\ child[p].status # 0
           => ret[p] = Nil /\ ir[p][LastSite(p)] = LastCall(p)
        /\ ret[p].op = "OLITERAL" =>
              child[p].state = "exited" /\ child[p].status = 0
C14_Witness ==
    \E p \in Proc :
        /\ Returned(p) /\ child[p].state = "exited" /\ child[p].status = 1
        /\ AllLiteral(LastCall(p).args)
        /\ child[p].stdout = PrintValue(DirectValue(p)) /\ child[p].stdout # <<>>
        /\ ret[p] = Nil /\ ir[p][LastSite(p)] = LastCall(p)

\* C15: the environment of every child is the spawning process's whole
\* environment, then a GOROOT entry with buildcfg.GOROOT exactly when that
\* is not "", then GO_PURE_EVAL_HELPER=1; the child reads the guard as 1 on
\* every spawn and GOROOT as buildcfg.GOROOT whenever that is known.
C15_ChildEnvironment ==
    \A p \in Proc :
        child[p].state # "none" =>
            LET e == child[p].env
                n == Len(environ[p])
            IN /\ Len(e) = n + (IF goroot # "" THEN 2 ELSE 1)
               /\ SubSeq(e, 1, n) = environ[p]
               /\ goroot # "" => /\ e[n + 1] = EnvEntry("GOROOT", goroot)
                                 /\ Getenv(e, "GOROOT") = goroot
               /\ goroot = "" => Getenv(e, "GOROOT") = Getenv(environ[p], "GOROOT")
               /\ e[Len(e)] = EnvEntry(GuardVar, "1")
               /\ Getenv(e, GuardVar) = "1"
C15_Witness ==
    \E p \in Proc :
        /\ child[p].state = "running" /\ goroot # ""
        /\ Getenv(environ[p], "GOROOT") \notin {"", goroot}
        /\ Getenv(child[p].env, "GOROOT") = goroot
        /\ Getenv(child[p].env, "PATH") = Getenv(environ[p], "PATH")
        /\ Getenv(child[p].env, GuardVar) = "1"

\* an evaluation of this compilation got as far as running a child
RanChild(p) ==
    \/ "spawn" \in steps[p]
    \/ \E j \in 1..Len(ir[p]) : ir[p][j].op = "OLITERAL"

\* C16: no step of an evaluation changes the environment of a running
\* process, so the guard set for a child is never set in the process that
\* spawned it; after a process has run a child, with or without success,
\* its guard is still not set and the next call the hook takes is
\* evaluated, not short-circuited.
C16_GuardOnlyInChild ==
    /\ [][\A p \in Proc : alive[p] /\ alive'[p] => environ'[p] = environ[p]]_vars
    /\ [](\A p \in Proc :
            RanChild(p) =>
                /\ ~GuardSet(environ[p])
                /\ Walked(p) /\ Taken(p) => "synth" \in steps[p])
C16_Witness ==
    \E p \in Proc :
        /\ Returned(p) /\ LastSite(p) = 2 /\ ~GuardSet(environ[p])
        /\ ir[p][1].op = "OLITERAL"
        /\ "spawn" \in steps[p] /\ ret[p].op = "OLITERAL" /\ ir[p][2] = ret[p]

\* the executor of p is between MkdirTemp and its return
Owns(p) == pc[p] \in {"write", "start", "wait"}

\* C17: at every moment of every interleaving the evaluations under way
\* hold pairwise different scratch directories; the directory of each is
\* there with no file but its own main.go, from the write to the return,
\* whatever the others create or remove; every child read the program of
\* the evaluation that spawned it.
C17_NoCollisionOnDisk ==
    /\ \A p, q \in Proc : p # q /\ Owns(p) /\ Owns(q) => tmpDir[p] # tmpDir[q]
    /\ \A p \in Proc :
          Owns(p) =>
              /\ fs[tmpDir[p]].exists
              /\ fs[tmpDir[p]].files \subseteq {MainFile(source[p])}
              /\ pc[p] # "write" => fs[tmpDir[p]].files = {MainFile(source[p])}
    /\ \A p \in Proc : child[p].state # "none" => child[p].read = {source[p]}
C17_Witness ==
    \E p, q \in Proc :
        /\ p # q /\ pc[p] = "wait" /\ pc[q] = "wait"
        /\ source[p] # source[q] /\ tmpDir[p] # tmpDir[q]
        /\ child[p].state = "exited" /\ child[q].state = "running"
        /\ child[p].read = {source[p]} /\ child[q].read = {source[q]}

\* the coordinator has returned for the second of two call sites in a row
\* that hold the same eligible call, and the first attempt failed
Reinvoked(p) ==
    /\ Returned(p) /\ LastSite(p) >= 2
    /\ unit[p][LastSite(p) - 1] = LastCall(p)
    /\ LastCall(p).fn.pure /\ KindsMatch(LastCall(p))
    /\ ir[p][LastSite(p) - 1] = LastCall(p)

\* what makes every attempt at the last call fail: the guard of the
\* process, a program that the toolchain does not build, an empty result
CauseStays(p) ==
    LET src == generateHelperProgram(LastCall(p).fn, LastCall(p).args) IN
    \/ GuardSet(environ[p])
    \/ src = <<>>
    \/ ~Builds(src)
    \/ RunOutput(src) = <<>>

\* C18 as stated: after a failed attempt, the coordinator called again
\* for the same call with the same arguments returns nil again.
C18_FailsAgain ==
    \A p \in Proc : Reinvoked(p) => ret[p] = Nil

\* C18 amended: a failed attempt leaves the call as it was, no scratch
\* directory of its own on disk (none at all when a host made it) and no
\* guard in the process that made the attempt;
\* called again for the same call the coordinator returns nil again
\* whenever the cause of the failure stays (guard set, program that does
\* not build, empty result).
C18_NoStateLeftBehind ==
    \A p \in Proc :
        /\ Returned(p) /\ Taken(p) /\ ret[p] = Nil =>
              /\ ir[p][LastSite(p)] = LastCall(p)
              /\ tmpDir[p] # NoDir => fs[tmpDir[p]] = Absent
              /\ p[2] = 0 => \A d \in DirNames : fs[d] = Absent
              /\ "synth" \in steps[p] => ~GuardSet(environ[p])
        /\ Reinvoked(p) /\ CauseStays(p) => ret[p] = Nil
C18_Witness ==
    \E p \in Proc :
        /\ Reinvoked(p) /\ CauseStays(p) /\ ~GuardSet(environ[p])
        /\ "spawn" \in steps[p] /\ tmpDir[p] # NoDir
        /\ ret[p] = Nil /\ \A d \in DirNames : fs[d] = Absent

\* what the environment answered to the last attempt of p and of q: which
\* of MkdirTemp, WriteFile and cmd.Run failed, and how the child ended
SameAnswers(p, q) ==
    /\ steps[p] \cap {"mkdir failed", "write failed", "spawn failed"} =
       steps[q] \cap {"mkdir failed", "write failed", "spawn failed"}
    /\ child[p].state = "exited" /\ child[q].state = "exited" =>
          /\ child[p].status = child[q].status
          /\ child[p].stdout = child[q].stdout
          /\ child[p].stderr = child[q].stderr

\* the return value and the side effects of the last attempt of p
Effects(p) ==
    [ret |-> ret[p],
     node |-> ir[p][LastSite(p)],
     stages |-> steps[p] \cap {"called", "synth", "mkdir", "write", "spawn"},
     program |-> source[p],
     dirMade |-> tmpDir[p] # NoDir,
     dirGone |-> tmpDir[p] # NoDir => fs[tmpDir[p]] = Absent,
     spawned |-> child[p].state # "none",
     childEnv |-> IF child[p].state = "none" THEN <<>> ELSE child[p].env]

\* the least LowerM that does not print the line
LineLevel(l) == IF l.text = "compile-time evaluated" THEN 0 ELSE 1

\* C19: two compilations of the same call in the same environment, with
\* the same answers of the environment and the same child behaviour, that
\* differ in base.Flag.LowerM return the same node and have the same side
\* effects; the lower verbosity prints the lines of the higher one that its
\* level lets through, and nothing at level 0.
C19_DiagnosticsObservational ==
    \A p, q \in Proc :
        /\ p[2] = 0 /\ q[2] = 0 /\ Returned(p) /\ Returned(q)
        /\ pos[p] = pos[q] /\ unit[p] = unit[q] /\ environ[p] = environ[q]
        /\ SameAnswers(p, q) /\ LowerM[p] <= LowerM[q]
        => /\ Effects(p) = Effects(q)
           /\ LET Shown(l) == LowerM[p] > LineLevel(l)
              IN printed[p] = SelectSeq(printed[q], Shown)
           /\ LowerM[p] = 0 => printed[p] = <<>>
C19_Witness ==
    \E p, q \in Proc :
        /\ p[2] = 0 /\ q[2] = 0 /\ Returned(p) /\ Returned(q)
        /\ pos[p] = pos[q] /\ unit[p] = unit[q] /\ SameAnswers(p, q)
        /\ LowerM[p] = 1 /\ LowerM[q] = 2
        /\ ret[p].op = "OLITERAL" /\ ret[q] = ret[p]
        /\ Len(printed[p]) = 1 /\ Len(printed[q]) = 3

\* C20: the directories on disk are the tmpDir of the executors under way,
\* one each, made by MkdirTemp; from the write to the return of cmd.Run
\* that directory holds one file, main.go, whose content is the text
\* generateHelperProgram returned for the call, and that file is what the
\* child is started on and reads.
C20_FilesystemBoundary ==
    /\ {d \in DirNames : fs[d].exists} = {tmpDir[q] : q \in {r \in Proc : Owns(r)}}
    /\ \A p \in Proc :
          /\ Owns(p) => "mkdir" \in steps[p] /\ tmpDir[p] \in DirNames
          /\ pc[p] \in {"start", "wait"} =>
                /\ fs[tmpDir[p]].files = {[name |-> "main.go", data |-> source[p]]}
                /\ Cardinality(fs[tmpDir[p]].files) = 1
                /\ source[p] = generateHelperProgram(unit[p][pos[p]].fn, unit[p][pos[p]].args)
          /\ child[p].state # "none" =>
                /\ child[p].argv[3] = <<tmpDir[p], "main.go">>
                /\ child[p].read = {source[p]}
C20_Witness ==
    \E p \in Proc :
        /\ pc[p] = "wait" /\ child[p].state = "running"
        /\ Cardinality({d \in DirNames : fs[d].exists}) = 1
        /\ fs[tmpDir[p]].files = {[name |-> "main.go", data |-> source[p]]}
        /\ source[p] # <<>> /\ child[p].read = {source[p]}

\* C21: one coordinator call calls cmd.Run at most once: it never has
\* started a second child, and after a spawn that failed or a child that
\* exited with a status other than 0 it has returned nil with that one
\* call of cmd.Run behind it.
C21_OneChildPerAttempt ==
    \A p \in Proc :
        /\ runs[p] <= 1
        /\ ~("spawn" \in steps[p] /\ "spawn failed" \in steps[p])
        /\ "spawn" \in steps[p] \/ "spawn failed" \in steps[p] <=> runs[p] = 1
        /\ /\ Returned(p)
           /\ \/ "spawn failed" \in steps[p]
              \/ child[p].state = "exited" /\ child[p].status # 0
           => runs[p] = 1 /\ ret[p] = Nil
C21_Witness ==
    \E p \in Proc :
        /\ Returned(p) /\ runs[p] = 1 /\ ret[p] = Nil
        /\ child[p].state = "exited" /\ child[p].status # 0
        /\ child[p].stderr # <<>>

\* the order of the coordinator's positions within one call
StageOrder ==
    { <<"walk", "walk">>, <<"walk", "mkdir">>,
      <<"mkdir", "write">>, <<"mkdir", "walk">>,
      <<"write", "start">>, <<"write", "walk">>,
      <<"start", "wait">>, <<"start", "walk">>,
      <<"wait", "wait">>, <<"wait", "walk">> }

\* C22: the stages run in sequence and a failed stage ends the call: the
\* program is generated only for a call the hook's check accepted, the
\* directory is made only for a non-empty program, the file is written
\* only into a made directory, the child is started only after the write,
\* a literal is built only after the child exited with status 0; after a
\* stage failed none of the later stages has run.
C22_StagesInSequence ==
    /\ [][\A p \in Proc : pc'[p] # pc[p] => <<pc[p], pc'[p]>> \in StageOrder]_vars
    /\ [](\A p \in Proc :
            /\ "synth" \in steps[p] =>
                  /\ "called" \in steps[p]
                  /\ unit[p][SiteNow(p)].fn.pure
                  /\ allArgsConstant(unit[p][SiteNow(p)].args,
                                     unit[p][SiteNow(p)].fn.params)
            /\ steps[p] \cap {"mkdir", "mkdir failed"} # {} =>
                  "synth" \in steps[p] /\ source[p] # <<>>
            /\ steps[p] \cap {"write", "write failed"} # {} => "mkdir" \in steps[p]
            /\ steps[p] \cap {"spawn", "spawn failed"} # {} => "write" \in steps[p]
            /\ ret[p].op = "OLITERAL" =>
                  /\ "spawn" \in steps[p]
                  /\ child[p].state = "exited" /\ child[p].status = 0
            /\ "mkdir failed" \in steps[p] =>
                  /\ steps[p] \cap {"mkdir", "write", "write failed", "spawn", "spawn failed"} = {}
                  /\ tmpDir[p] = NoDir /\ child[p] = NoChild
            /\ "write failed" \in steps[p] =>
                  /\ steps[p] \cap {"write", "spawn", "spawn failed"} = {}
                  /\ child[p] = NoChild
            /\ "spawn failed" \in steps[p] =>
                  "spawn" \notin steps[p] /\ child[p] = NoChild
            /\ steps[p] \cap {"mkdir failed", "write failed", "spawn failed"} # {} =>
                  Returned(p) /\ ret[p] = Nil)
C22_Witness ==
    \E p \in Proc :
        /\ Returned(p) /\ "write failed" \in steps[p]
        /\ "mkdir" \in steps[p] /\ "synth" \in steps[p] /\ source[p] # <<>>
        /\ child[p] = NoChild /\ ret[p] = Nil

\* C23: a literal the coordinator returns has as its value the whole
\* standard output of the child, byte for byte, leading blanks and the
\* trailing newline included.
C23_ValueIsWholeOutput ==
    \A p \in Proc :
        Returned(p) /\ ret[p].op = "OLITERAL" =>
            /\ child[p].state = "exited"
            /\ ret[p].kind = "String"
            /\ ret[p].val = child[p].stdout
            /\ Len(ret[p].val) = Len(child[p].stdout)
            /\ ir[p][LastSite(p)].val = child[p].stdout
C23_Witness ==
    \E p \in Proc :
        /\ Returned(p) /\ ret[p].op = "OLITERAL"
        /\ child[p].stdout = <<" ", "o", "k", "\n">>
        /\ ret[p].val = <<" ", "o", "k", "\n">>

\* C24: for arguments of which at least one, at any place, has a kind other
\* than String, Int, Float and Bool, generateHelperProgram returns the
\* empty text, never a part of a program; the coordinator then returns nil,
\* and no directory is made and no child started.
C24_UnsupportedKindNoProgram ==
    \A p \in Proc :
        /\ source[p] = <<>> \/ Len(source[p]) = 6
        /\ Walked(p) /\ Taken(p) /\ ~GuardSet(environ[p]) =>
              LET n == unit[p][SiteNow(p)] IN
              (\E i \in 1..Len(n.args) :
                  n.args[i].kind \notin {"String", "Int", "Float", "Bool"})
              => /\ source[p] = <<>>
                 /\ Returned(p) /\ ret[p] = Nil /\ ir[p][LastSite(p)] = n
                 /\ steps[p] = {"called", "synth"}
                 /\ tmpDir[p] = NoDir /\ child[p] = NoChild /\ runs[p] = 0
                 /\ \A d \in DirNames : fs[d] = Absent
C24_Witness ==
    \E p \in Proc :
        /\ Returned(p) /\ Taken(p) /\ Len(LastCall(p).args) = 2
        /\ LastCall(p).args[1].kind = "String"
        /\ LastCall(p).args[2].kind = "Complex"
        /\ source[p] = <<>> /\ ret[p] = Nil /\ tmpDir[p] = NoDir

\* the constant c and the literal text t denote the same value
Denotes(t, c) ==
    LET v == ParseLiteral(t) IN
    CASE c.kind = "Float" ->
            \/ v.kind = "Float" /\ v.val = Normalise(c.val.mant, c.val.exp)
            \/ v.kind = "Int" /\ Normalise(v.val, 0) = Normalise(c.val.mant, c.val.exp)
      [] OTHER -> v.kind = c.kind /\ v.val = c.val

\* C25: the call line of a synthesized program has one rendered literal for
\* each argument of the call, in the arguments' order, and each rendered
\* literal, read as source text, denotes the value of the constant it was
\* rendered from.
C25_LiteralsDenoteArguments ==
    \A p \in Proc :
        Walked(p) /\ source[p] # <<>> =>
            LET n == unit[p][SiteNow(p)]
                line == source[p][5]
            IN /\ Len(line.args) = Len(n.args)
               /\ \A i \in 1..Len(n.args) : Denotes(line.args[i], n.args[i])

\* the packages a program imports, the one it prints with left aside
Imports(src) ==
    {src[k].path : k \in {j \in 1..Len(src) : src[j].line = "import"}} \ {<<"fmt">>}

\* C26: every non-empty synthesized program imports the package of the
\* target function and no other (fmt, which it prints with, left aside), by
\* a path that can be imported, and calls the target by the name of that
\* package and the function's name, whatever the import path is.
C26_ImportsAndCallsTarget ==
    \A p \in Proc :
        Walked(p) /\ source[p] # <<>> =>
            LET fn == unit[p][SiteNow(p)].fn IN
            /\ Imports(source[p]) = {fn.pkgPath}
            /\ fn.pkgPath \in Importable
            /\ CallLine(source[p]).qual = PkgName(fn.pkgPath)
            /\ CallLine(source[p]).fn = fn.name

\* C27: a child is invoked as <toolchain> run <scratch directory>/main.go,
\* where the toolchain is GOROOT/bin/go when buildcfg.GOROOT is known and
\* os.Stat finds that file, and go, looked up in PATH, in every other case.
C27_ToolchainSelection ==
    \A p \in Proc :
        child[p].state # "none" =>
            LET pinned == goroot # "" /\ child[p].stat IN
            /\ Len(child[p].argv) = 3
            /\ child[p].argv[1] = IF pinned THEN <<goroot, "bin", "go">> ELSE <<"go">>
            /\ child[p].argv[2] = "run"
            /\ child[p].argv[3] = <<tmpDir[p], "main.go">>
            /\ tmpDir[p] \in DirNames
C27_Witness ==
    /\ goroot # ""
    /\ \E p \in Proc :
          /\ child[p].state = "exited" /\ ~child[p].stat
          /\ child[p].argv = <<<<"go">>, "run", <<tmpDir[p], "main.go">>>>

\* p and q got the same answers from the environment but for what their
\* children wrote to standard error
SameButStderr(p, q) ==
    /\ steps[p] \cap {"mkdir failed", "write failed", "spawn failed"} =
       steps[q] \cap {"mkdir failed", "write failed", "spawn failed"}
    /\ child[p].state = child[q].state
    /\ child[p].state = "exited" =>
          /\ child[p].status = child[q].status
          /\ child[p].stdout = child[q].stdout

\* C28: two evaluations of the same call in the same environment whose
\* children ended with the same status and the same standard output return
\* the same node and replace the call alike, whatever each child wrote to
\* standard error; a child that exits 0 with a non-empty standard output
\* gives a literal of that output also when it wrote to standard error.
C28_StderrDiagnosticOnly ==
    /\ \A p, q \in Proc :
          /\ p[2] = 0 /\ q[2] = 0 /\ Returned(p) /\ Returned(q)
          /\ pos[p] = pos[q] /\ unit[p] = unit[q] /\ environ[p] = environ[q]
          /\ SameButStderr(p, q)
          => /\ ret[p] = ret[q]
             /\ ir[p][LastSite(p)] = ir[q][LastSite(q)]
    /\ \A p \in Proc :
          /\ Returned(p) /\ child[p].state = "exited"
          /\ child[p].status = 0 /\ child[p].stdout # <<>> /\ child[p].stderr # <<>>
          => /\ ret[p].op = "OLITERAL" /\ ret[p].val = child[p].stdout
             /\ ir[p][LastSite(p)] = ret[p]
C28_Witness ==
    \E p, q \in Proc :
        /\ p[2] = 0 /\ q[2] = 0 /\ Returned(p) /\ Returned(q)
        /\ pos[p] = pos[q] /\ unit[p] = unit[q] /\ SameButStderr(p, q)
        /\ child[p].state = "exited" /\ child[p].status = 0
        /\ child[p].stderr = <<>> /\ child[q].stderr # <<>>
        /\ ret[q].op = "OLITERAL" /\ ret[q].val = child[q].stdout /\ ret[p] = ret[q]

\* the executor of p is under way
Executing(p) == pc[p] \in {"mkdir", "write", "start", "wait"}

\* C29: cmd.Run blocks until the child has exited: the coordinator has not
\* returned while its child runs, and the executor leaves the wait only by
\* a step taken when the child has exited (no timeout, no cancellation);
\* when every child started exits, every executor under way returns, and
\* the coordinator with it, with nil or a literal.
C29_BlocksUntilChildEnds ==
    /\ [](\A p \in Proc : child[p].state = "running" => pc[p] = "wait")
    /\ [][\A p \in Proc :
            pc[p] = "wait" /\ pc'[p] # "wait" => child[p].state = "exited"]_vars
    /\ \A p \in Proc :
          Executing(p) ~> (pc[p] = "walk" /\ (ret[p] = Nil \/ ret[p].op = "OLITERAL"))
C29_Witness ==
    \E p \in Proc :
        /\ Returned(p) /\ "spawn" \in steps[p]
        /\ child[p].state = "exited" /\ child[p].status = 1 /\ ret[p] = Nil

\* C30: no step of an evaluation changes a call node of the unit a process
\* compiles: the function and the arguments of every call are, after the
\* coordinator returned nil or a literal, what they were before; a site of
\* the walked tree holds either that call or the literal the coordinator
\* built, a node with a type, a typecheck mark and a position of its own,
\* which is none of the call's argument nodes.
C30_CallSiteReadOnly ==
    /\ [][\A p \in Proc : alive[p] /\ alive'[p] => unit'[p] = unit[p]]_vars
    /\ [](\A p \in Proc : \A k \in 1..Len(ir[p]) :
             \/ ir[p][k] = unit[p][k]
             \/ /\ ir[p][k].op = "OLITERAL"
                /\ ir[p][k] = Materialize(ir[p][k].val, ir[p][k].pos)
                /\ k = SiteNow(p) => ir[p][k] = ret[p]
                /\ \A i \in 1..Len(unit[p][k].args) : ir[p][k] # unit[p][k].args[i]
                /\ unit[p][k].op = "OCALLFUNC")
C30_Witness ==
    \E p \in Proc :
        /\ Returned(p) /\ pos[p] > 2
        /\ ir[p][1].op = "OLITERAL" /\ unit[p][1].op = "OCALLFUNC"
        /\ Len(unit[p][1].args) = 1 /\ unit[p][1].args[1].op = "OLITERAL"
        /\ ret[p] = Nil /\ ir[p][LastSite(p)] = unit[p][LastSite(p)]
        /\ "spawn" \in steps[p]

C32_ArityMismatchIneligible ==
    LET p == <<1, 0>> IN
    Walked(p) /\ Len(unit[p][1].args) # Len(unit[p][1].fn.params) =>
        /\ ~Taken(p) /\ "inspected" \notin steps[p]
        /\ ArgsInspected(unit[p][1].args, unit[p][1].fn.params) = 0
        /\ Returned(p) /\ ret[p] = NotCalled /\ ir[p][1] = unit[p][1]
C32_Witness ==
    LET p == <<1, 0>> IN
    /\ Returned(p) /\ unit[p][1].fn.pure
    /\ Len(unit[p][1].args) = 2 /\ Len(unit[p][1].fn.params) = 1
    /\ unit[p][1].fn.params[1] = "string"
    /\ \A i \in 1..2 : unit[p][1].args[i] = Lit(Str(<<"a">>))
    /\ ~Taken(p) /\ steps[p] = {}

\* C33: when the coordinator has returned a literal, then in that call the
\* guard was not set in the process, the program was not empty, MkdirTemp
\* and WriteFile succeeded, the child was started and exited with status 0
\* with a non-empty standard output, which is the literal's value; and the
\* scratch directory of that call is no longer on disk.
C33_LiteralOnlyAfterAllStages ==
    /\ [](\A p \in Proc :
             Returned(p) /\ ret[p].op = "OLITERAL" =>
                 /\ ~GuardSet(environ[p])
                 /\ source[p] # <<>>
                 /\ {"called", "synth", "mkdir", "write", "spawn"} \subseteq steps[p]
                 /\ steps[p] \cap {"mkdir failed", "write failed", "spawn failed"} = {}
                 /\ child[p].state = "exited" /\ child[p].status = 0
                 /\ child[p].stdout # <<>> /\ ret[p].val = child[p].stdout
                 /\ tmpDir[p] \in DirNames)
    /\ [][\A p \in Proc :
            pc[p] # "walk" /\ pc'[p] = "walk" /\ ret'[p].op = "OLITERAL" =>
                /\ fs[tmpDir[p]].exists
                /\ ~fs'[tmpDir[p]].exists /\ fs'[tmpDir[p]].files = {}]_vars
C33_Witness ==
    \E p \in Proc :
        /\ Returned(p) /\ ret[p].op = "OLITERAL" /\ ir[p][LastSite(p)] = ret[p]
        /\ child[p].status = 0 /\ child[p].stderr # <<>>
        /\ tmpDir[p] \in DirNames /\ \A d \in DirNames : ~fs[d].exists

\* C34: as long as a child runs, the scratch directory of its executor is
\* on disk and holds the main.go with the program, whatever other compilers
\* create or remove; a step that removes the directory of an executor which
\* has written its file is taken with that executor's child exited, or is
\* the failure to start the child, never with the child running.
C34_ScratchOutlivesChild ==
    /\ [](\A p \in Proc :
             child[p].state = "running" =>
                 /\ pc[p] = "wait" /\ tmpDir[p] \in DirNames
                 /\ fs[tmpDir[p]].exists
                 /\ [name |-> "main.go", data |-> source[p]] \in fs[tmpDir[p]].files)
    /\ [][\A p \in Proc :
            /\ pc[p] \in {"start", "wait"}
            /\ fs[tmpDir[p]].exists /\ ~fs'[tmpDir[p]].exists
            => /\ child[p].state # "running"
               /\ \/ pc[p] = "wait" /\ child[p].state = "exited"
                  \/ pc[p] = "start" /\ "spawn failed" \in steps'[p]]_vars
C34_Witness ==
    \E p, q \in Proc :
        /\ p # q /\ child[p].state = "running" /\ fs[tmpDir[p]].exists
        /\ [name |-> "main.go", data |-> source[p]] \in fs[tmpDir[p]].files
        /\ Returned(q) /\ "spawn" \in steps[q] /\ child[q].state = "exited"
        /\ tmpDir[q] # tmpDir[p] /\ ~fs[tmpDir[q]].exists

====
